---- MODULE Spec2Model ----
(***************************************************************************)
(* Token lifecycle, authenticated request executor and authorization flow  *)
(* of the Spotify MCP server.  Two variants of the program are in the      *)
(* repository: the build (src/build/index.js, with the token store and the *)
(* 401 handling) and the TypeScript source (src/index.ts, memory only).    *)
(* A process runs one of them; the variable "variant" says which.          *)
(*                                                                         *)
(* A call suspends at every network operation (await), so a handler is cut *)
(* at its awaits: one action for the synchronous part up to the await, one *)
(* for each way the awaited operation can settle.                          *)
(***************************************************************************)
EXTENDS Integers, FiniteSets, Sequences, TLC

VARIABLES
    variant,              \* "build" or "ts"
    conc,                 \* which calls the host dispatches while another is suspended
    now,                  \* Date.now(), in ms
    accessToken,          \* module-level token state
    refreshToken,
    tokenExpirationTime,
    store,                \* content of TOKEN_PATH
    issued,               \* last token the token endpoint has handed out
    pc,                   \* per request slot: where the call is suspended
    op,                   \* per request slot: which function was called
    nowAt,                \* per request slot: the local const now
    token,                \* per request slot: the token returned / sent as Bearer
    result,               \* per request slot: what the call returned or threw
    pre,                  \* per request slot: token record when the call began
    cnt,                  \* per request slot: I/O performed by this call
    resp,                 \* per request slot: answer of the token endpoint
    http,                 \* per request slot: answer of the Remote API
    rejected,             \* the access token the Remote API last answered 401 to
    authServer,           \* module-level listener reference
    orphan,               \* a listener whose reference has been overwritten
    port,                 \* who holds the well-known port
    apc,                  \* per auth slot: where the auth-spotify call is suspended
    ares,                 \* per auth slot: how its startAuthServer settled
    cb,                   \* where the /callback handler is suspended
    proc,                 \* "running", or how the process ended
    call                  \* a tool call's arguments and what their schema made of them

vars == <<variant, conc, now, accessToken, refreshToken, tokenExpirationTime,
          store, issued, pc, op, nowAt, token, result, pre, cnt, resp, http,
          rejected, authServer, orphan, port, apc, ares, cb, proc, call>>

tokenVars == <<accessToken, refreshToken, tokenExpirationTime, store, issued>>
reqVars == <<pc, op, nowAt, token, result, pre, cnt, resp, http>>
authVars == <<authServer, orphan, port, apc, ares, cb, proc>>

----------------------------------------------------------------------------
\* Bounds of the model

MaxTicks == 2
MaxIssued == 2
\* the largest number a client sends as a limit
MaxLimit == 101

----------------------------------------------------------------------------
\* Program constants and value spaces

NULL == 0
SAFETY_MARGIN == 60000

TickMs == SAFETY_MARGIN
InitNow == SAFETY_MARGIN
MaxNow == InitNow + MaxTicks * TickMs

Req == {1, 2}
AuthReq == {1, 2}
Variants == {"build", "ts"}

\* expires_in of a token-endpoint response, in seconds
ExpiresIn == {30, 120}

TokenRecord(a, r, e) ==
    [accessToken |-> a, refreshToken |-> r, tokenExpirationTime |-> e]

Cleared == TokenRecord(NULL, NULL, 0)

Mem == TokenRecord(accessToken, refreshToken, tokenExpirationTime)

SetMem(rec) ==
    /\ accessToken' = rec.accessToken
    /\ refreshToken' = rec.refreshToken
    /\ tokenExpirationTime' = rec.tokenExpirationTime

\* Content of the token file: missing, empty, not JSON, or a serialized object
File(kind, rec) == [kind |-> kind, data |-> rec]
Missing == File("missing", Cleared)
\* not even the directory ~/.spotify-mcp exists
NoDir == File("nodir", Cleared)
Empty == File("empty", Cleared)
Invalid == File("invalid", Cleared)

\* JSON.stringify({accessToken, refreshToken, tokenExpirationTime}, null, 2):
\* null is written as null, a number as its digits
Stringify(rec) == File("json", rec)

\* JSON.parse of the file content; throws on anything but JSON
ParseOk(f) == f.kind = "json"
Parse(f) == f.data

ZeroCnt == [reads |-> 0, writes |-> 0, refreshes |-> 0, apiCalls |-> 0,
            invalidations |-> 0]

Bump(c, field) == [c EXCEPT ![field] = @ + 1]

NoResp == [status |-> "none", access_token |-> NULL, refresh_token |-> NULL,
           expires_in |-> 0]
FailedResp == [NoResp EXCEPT !.status = "failed"]

----------------------------------------------------------------------------
\* Token Store

\* loadTokens: the record to install, memory being m
loadTokens(f, m) ==
    IF ~ParseOk(f) THEN m
    ELSE IF Parse(f).accessToken = NULL \/ Parse(f).refreshToken = NULL THEN m
    ELSE Parse(f)

\* the inline load of spotifyApiRequest: no completeness check
inlineLoadClearsOnError(f, m) ==
    IF ParseOk(f) THEN Parse(f) ELSE Cleared

inlineLoad(f, m) ==
    IF ParseOk(f) THEN Parse(f) ELSE m

\* ensureTokenDirExists and the inline mkdirSync: the store after the
\* directory step; a failed mkdir is caught and logged
ensureTokenDirExistsNever(f, made) == f

ensureTokenDirExists(f, made) ==
    IF f.kind = "nodir" /\ made THEN Missing ELSE f

\* the write itself, which needs the directory; a failed write is caught
\* and logged
writeTokens(f, m, ok) ==
    IF ok /\ f.kind # "nodir" THEN Stringify(m) ELSE f

\* saveTokens and the inline writes: the directory step, then the write
saveTokens(f, m, made, ok) ==
    writeTokens(ensureTokenDirExists(f, made), m, ok)

----------------------------------------------------------------------------
\* Token Manager

\* the freshness test of ensureToken
IsFresh(m, n) ==
    m.accessToken # NULL /\ n < m.tokenExpirationTime - SAFETY_MARGIN

\* the staleness test of spotifyApiRequest
IsStaleNoMargin(m, n) ==
    n >= m.tokenExpirationTime

\* the staleness test of spotifyApiRequest
IsStale(m, n) ==
    n >= m.tokenExpirationTime - SAFETY_MARGIN

\* when ensureToken and spotifyApiRequest turn to the token file
ensureTokenLoads(m) ==
    m.accessToken = NULL /\ m.refreshToken = NULL

requestLoadsNever(m) == FALSE

requestLoads(m) ==
    m.accessToken = NULL \/ m.refreshToken = NULL

\* what ensureToken does with record m at time n
ensureTokenPlan(m, n) ==
    IF IsFresh(m, n) THEN "token"
    ELSE IF m.refreshToken # NULL THEN "refresh"
    ELSE "null"

\* what spotifyApiRequest (build) does with record m at time n
requestPlanSkipsAuthCheck(m, n) ==
    IF ~IsStale(m, n) /\ m.accessToken # NULL THEN "call"
    ELSE IF m.refreshToken # NULL THEN "refresh"
    ELSE "expired"

requestPlan(m, n) ==
    IF m.accessToken = NULL THEN "unauthenticated"
    ELSE IF ~IsStale(m, n) THEN "call"
    ELSE IF m.refreshToken # NULL THEN "refresh"
    ELSE "expired"

\* the record after a successful refresh whose call began at n
RefreshedInSeconds(m, n, rsp) ==
    TokenRecord(rsp.access_token,
                IF rsp.refresh_token # NULL THEN rsp.refresh_token
                                            ELSE m.refreshToken,
                n + rsp.expires_in)

RefreshedDropsRefreshToken(m, n, rsp) ==
    TokenRecord(rsp.access_token, rsp.refresh_token,
                n + rsp.expires_in * 1000)

\* a plausible slip: the token is read from a field the response does
\* not have (response.data.accessToken), which gives no token at all
RefreshedReadsMissingField(m, n, rsp) ==
    TokenRecord(NULL,
                IF rsp.refresh_token # NULL THEN rsp.refresh_token
                                            ELSE m.refreshToken,
                n + rsp.expires_in * 1000)

Refreshed(m, n, rsp) ==
    TokenRecord(rsp.access_token,
                IF rsp.refresh_token # NULL THEN rsp.refresh_token
                                            ELSE m.refreshToken,
                n + rsp.expires_in * 1000)

\* the record after a failed refresh
refreshFailedKeepsRefreshToken(m) ==
    TokenRecord(NULL, m.refreshToken, 0)

refreshFailed(m) == Cleared

\* the record when the token is stale and there is no refresh token
expiredNoRefresh(m) ==
    TokenRecord(NULL, m.refreshToken, 0)

\* the record after the Remote API answered 401 (build)
unauthorized(m) == Cleared

\* responses the token endpoint can give to a refresh
RefreshResponses ==
    [status : {"ok"},
     access_token : {issued + 1},
     refresh_token : {NULL, issued + 1},
     expires_in : ExpiresIn]

----------------------------------------------------------------------------
\* Tool arguments and their zod schemas

\* a JSON value: its type, and its number, its text or its length
Undef == [t |-> "undefined", n |-> 0, s |-> ""]
Num(n) == [t |-> "number", n |-> n, s |-> ""]
Str(s) == [t |-> "string", n |-> 0, s |-> s]
Bool(b) == [t |-> "boolean", n |-> b, s |-> ""]
Arr(len) == [t |-> "array", n |-> len, s |-> ""]

\* zod field types
zField(type, presence, dflt, min, max, options) ==
    [type |-> type, presence |-> presence, dflt |-> dflt,
     min |-> min, max |-> max, options |-> options]

zString == zField("string", "required", Undef, 0, 0, {})
zArray == zField("array", "required", Undef, 0, 0, {})
zEnum(options, dflt) == zField("string", "default", Str(dflt), 0, 0, options)
zNumber(min, max, dflt) == zField("number", "default", Num(dflt), min, max, {})
zBoolean(dflt) == zField("boolean", "default", Bool(dflt), 0, 0, {})
optional(z) == [z EXCEPT !.presence = "optional"]

SearchTypes == {"track", "album", "artist", "playlist"}

SearchSchema ==
    [query |-> zString,
     type |-> zEnum(SearchTypes, "track"),
     limit |-> zNumber(1, 50, 10)]

PlayTrackSchema ==
    [trackId |-> zString,
     deviceId |-> optional(zString)]

CreatePlaylistSchema ==
    [name |-> zString,
     description |-> optional(zString),
     public |-> zBoolean(0)]

AddTracksSchema ==
    [playlistId |-> zString,
     trackIds |-> zArray]

GetRecommendationsSchema ==
    [seedTracks |-> optional(zArray),
     seedArtists |-> optional(zArray),
     seedGenres |-> optional(zArray),
     limit |-> zNumber(1, 100, 20)]

Tools == {"search-spotify", "play-track", "create-playlist",
          "add-tracks-to-playlist", "get-recommendations"}

\* the schema the CallTool handler parses the arguments of tool name with
schemaOf(name) ==
    CASE name = "search-spotify" -> SearchSchema
      [] name = "play-track" -> PlayTrackSchema
      [] name = "create-playlist" -> CreatePlaylistSchema
      [] name = "add-tracks-to-playlist" -> AddTracksSchema
      [] name = "get-recommendations" -> GetRecommendationsSchema

Fail == [ok |-> FALSE, value |-> Undef]
Ok(x) == [ok |-> TRUE, value |-> x]

\* a plausible slip: the lower bound of a number is not enforced
parseFieldIgnoresMin(z, x) ==
    IF x.t = "undefined"
    THEN CASE z.presence = "default" -> Ok(z.dflt)
           [] z.presence = "optional" -> Ok(Undef)
           [] OTHER -> Fail
    ELSE IF x.t # z.type THEN Fail
    ELSE IF z.type = "number" /\ x.n > z.max THEN Fail
    ELSE IF z.options # {} /\ x.s \notin z.options THEN Fail
    ELSE Ok(x)

\* zod on one field: an absent value takes the default or stays absent when
\* the field allows it; a present value must have the type, lie within the
\* bounds and be one of the options
parseField(z, x) ==
    IF x.t = "undefined"
    THEN CASE z.presence = "default" -> Ok(z.dflt)
           [] z.presence = "optional" -> Ok(Undef)
           [] OTHER -> Fail
    ELSE IF x.t # z.type THEN Fail
    ELSE IF z.type = "number" /\ (x.n < z.min \/ x.n > z.max) THEN Fail
    ELSE IF z.options # {} /\ x.s \notin z.options THEN Fail
    ELSE Ok(x)

\* Schema.parse(args): the parsed object, or a ZodError
parse(schema, args) ==
    LET r == [f \in DOMAIN schema |-> parseField(schema[f], args[f])]
    IN  [ok |-> \A f \in DOMAIN schema : r[f].ok,
         data |-> [f \in DOMAIN schema |-> r[f].value]]

\* values a client can send for a field of type z, numbers taken from nums
Candidates(z, nums) ==
    {Undef, Str("x")}
    \cup (IF z.type = "number" THEN {Num(n) : n \in nums} ELSE {})
    \cup (IF z.type = "string" THEN {Num(1)} ELSE {})
    \cup (IF z.type = "array" THEN {Arr(0), Arr(2)} ELSE {})
    \cup (IF z.type = "boolean" THEN {Bool(0), Bool(1)} ELSE {})
    \cup {Str(o) : o \in z.options}

\* argument objects over the given fields of a schema
RECURSIVE ArgsOver(_, _, _)
ArgsOver(schema, fields, nums) ==
    IF fields = {} THEN {[f \in {} |-> Undef]}
    ELSE LET f == CHOOSE g \in fields : TRUE
         IN  {[g \in (DOMAIN a) \cup {f} |-> IF g = f THEN v ELSE a[g]] :
                a \in ArgsOver(schema, fields \ {f}, nums),
                v \in Candidates(schema[f], nums)}

\* argument objects a client can send to tool name
Inputs(name, nums) ==
    ArgsOver(schemaOf(name), DOMAIN schemaOf(name), nums)

NoCall == [name |-> "none", args |-> [none |-> Undef], status |-> "none",
           out |-> [none |-> Undef]]

----------------------------------------------------------------------------
\* Initial state: the module has been loaded, no call is running

\* what a store left by an earlier run can hold
InitFiles ==
    {NoDir, Missing, Empty, Invalid, Stringify(Cleared)}
    \cup {Stringify(TokenRecord(1, 1, e)) :
            e \in {InitNow - 1000, InitNow + SAFETY_MARGIN,
                   InitNow + SAFETY_MARGIN + TickMs}}

InitTokens ==
    /\ variant \in Variants
    /\ now = InitNow
    /\ store \in IF variant = "build" THEN InitFiles ELSE {Missing}
    \* const tokensLoaded = loadTokens() runs at module load (build only)
    /\ LET m == IF variant = "build" THEN loadTokens(store, Cleared)
                                     ELSE Cleared
       IN  /\ accessToken = m.accessToken
           /\ refreshToken = m.refreshToken
           /\ tokenExpirationTime = m.tokenExpirationTime
    /\ issued = 1
    /\ pc = [r \in Req |-> "idle"]
    /\ op = [r \in Req |-> "none"]
    /\ nowAt = [r \in Req |-> 0]
    /\ token = [r \in Req |-> NULL]
    /\ result = [r \in Req |-> "none"]
    /\ pre = [r \in Req |-> Cleared]
    /\ cnt = [r \in Req |-> ZeroCnt]
    /\ resp = [r \in Req |-> NoResp]
    /\ http = [r \in Req |-> "none"]
    /\ rejected = NULL
    /\ authServer = "none"
    /\ orphan = "none"
    /\ port \in {"free", "other"}
    /\ apc = [a \in AuthReq |-> "idle"]
    /\ ares = [a \in AuthReq |-> "none"]
    /\ cb = "idle"
    /\ proc = "running"

----------------------------------------------------------------------------
\* Bookkeeping shared by the actions

\* the process is up and no tool call is being rejected
Running ==
    proc = "running" /\ call.status = "none"

\* a settled call hands its outcome to its caller in the same turn of the
\* event loop: no timer, socket or other process gets in between
Quiet ==
    /\ Running
    /\ \A a \in AuthReq : apc[a] \notin {"done", "returned", "threw"}
    /\ \A r \in Req : pc[r] # "done"

\* no tool call is in progress and no callback is being handled
Idle ==
    /\ Running
    /\ cb = "idle"
    /\ \A a \in AuthReq : apc[a] = "idle"
    /\ \A r \in Req : pc[r] = "idle"

\* slot r begins a call of function f
\* (of two concurrent calls the first takes slot 1)
Begin(r, f) ==
    /\ Running
    /\ pc[r] = "idle"
    /\ \A q \in Req : q < r => conc = "requests" /\ pc[q] # "idle"
    /\ cb = "idle" /\ \A a \in AuthReq : apc[a] = "idle"
    /\ op' = [op EXCEPT ![r] = f]
    /\ nowAt' = [nowAt EXCEPT ![r] = now]
    /\ pre' = [pre EXCEPT ![r] = Mem]
    /\ UNCHANGED <<resp, http>>

\* the call of slot r settles with outcome res, handing t to its caller
Settle(r, res, t) ==
    /\ pc' = [pc EXCEPT ![r] = "done"]
    /\ result' = [result EXCEPT ![r] = res]
    /\ token' = [token EXCEPT ![r] = t]

\* slot r suspends on the refresh exchange
AwaitRefresh(r) ==
    /\ pc' = [pc EXCEPT ![r] = "refreshing"]
    /\ result' = [result EXCEPT ![r] = "none"]
    /\ token' = [token EXCEPT ![r] = NULL]

\* slot r issues the Remote API call with Bearer t and suspends on it
AwaitApi(r, t) ==
    /\ pc' = [pc EXCEPT ![r] = "calling"]
    /\ result' = [result EXCEPT ![r] = "none"]
    /\ token' = [token EXCEPT ![r] = t]

----------------------------------------------------------------------------
\* ensureToken, up to its await

ensureTokenCall(r) ==
    /\ Begin(r, "ensureToken")
    /\ LET load == variant = "build" /\ ensureTokenLoads(Mem)
           m == IF load THEN loadTokens(store, Mem) ELSE Mem
           c == IF load THEN Bump(ZeroCnt, "reads") ELSE ZeroCnt
           plan == ensureTokenPlan(m, now)
       IN  /\ SetMem(m)
           /\ CASE plan = "token" ->
                     /\ Settle(r, "token", m.accessToken)
                     /\ cnt' = [cnt EXCEPT ![r] = c]
                [] plan = "refresh" ->
                     /\ AwaitRefresh(r)
                     /\ cnt' = [cnt EXCEPT ![r] = Bump(c, "refreshes")]
                [] OTHER ->
                     /\ Settle(r, "null", NULL)
                     /\ cnt' = [cnt EXCEPT ![r] = c]
    /\ UNCHANGED <<authVars, variant, conc, call, now, store, issued, rejected>>

\* spotifyApiRequest of the build, up to its first await
spotifyApiRequestBuild(r) ==
    /\ variant = "build"
    /\ Begin(r, "spotifyApiRequest")
    /\ LET load == requestLoads(Mem)
           m == IF load THEN inlineLoad(store, Mem) ELSE Mem
           c == IF load THEN Bump(ZeroCnt, "reads") ELSE ZeroCnt
           plan == requestPlan(m, now)
       IN  CASE plan = "unauthenticated" ->
                  /\ SetMem(m)
                  /\ Settle(r, "Not authenticated", NULL)
                  /\ cnt' = [cnt EXCEPT ![r] = c]
             [] plan = "call" ->
                  /\ SetMem(m)
                  /\ AwaitApi(r, m.accessToken)
                  /\ cnt' = [cnt EXCEPT ![r] = Bump(c, "apiCalls")]
             [] plan = "refresh" ->
                  /\ SetMem(m)
                  /\ AwaitRefresh(r)
                  /\ cnt' = [cnt EXCEPT ![r] = Bump(c, "refreshes")]
             [] OTHER ->
                  /\ SetMem(expiredNoRefresh(m))
                  /\ Settle(r, "Authentication expired", NULL)
                  /\ cnt' = [cnt EXCEPT ![r] = Bump(c, "invalidations")]
    /\ UNCHANGED <<authVars, variant, conc, call, now, store, issued, rejected>>

\* spotifyApiRequest of the TypeScript source: ensureToken, then the call
spotifyApiRequestTs(r) ==
    /\ variant = "ts"
    /\ Begin(r, "spotifyApiRequest")
    /\ LET plan == ensureTokenPlan(Mem, now)
       IN  CASE plan = "token" ->
                  /\ AwaitApi(r, accessToken)
                  /\ cnt' = [cnt EXCEPT ![r] = Bump(ZeroCnt, "apiCalls")]
             [] plan = "refresh" ->
                  /\ AwaitRefresh(r)
                  /\ cnt' = [cnt EXCEPT ![r] = Bump(ZeroCnt, "refreshes")]
             [] OTHER ->
                  /\ Settle(r, "Not authenticated", NULL)
                  /\ cnt' = [cnt EXCEPT ![r] = ZeroCnt]
    /\ UNCHANGED <<authVars, variant, conc, call, now, accessToken, refreshToken,
                   tokenExpirationTime, store, issued, rejected>>

----------------------------------------------------------------------------
\* The refresh exchange settles

RefreshSuccess(r) ==
    /\ Quiet
    /\ pc[r] = "refreshing"
    /\ issued < MaxIssued
    /\ \E rsp \in RefreshResponses, made \in BOOLEAN, ok \in BOOLEAN :
         LET m == Refreshed(Mem, nowAt[r], rsp)
         IN  /\ SetMem(m)
             /\ resp' = [resp EXCEPT ![r] = rsp]
             /\ IF variant = "build"
                THEN /\ store' = saveTokens(store, m, made, ok)
                     /\ cnt' = [cnt EXCEPT ![r] =
                                  IF op[r] = "ensureToken"
                                  THEN Bump(@, "writes")
                                  ELSE Bump(Bump(@, "writes"), "apiCalls")]
                ELSE /\ made /\ ok
                     /\ store' = store
                     /\ cnt' = [cnt EXCEPT ![r] =
                                  IF op[r] = "ensureToken"
                                  THEN @ ELSE Bump(@, "apiCalls")]
             /\ IF op[r] = "ensureToken"
                THEN Settle(r, "token", m.accessToken)
                ELSE AwaitApi(r, m.accessToken)
    /\ issued' = issued + 1
    /\ UNCHANGED <<authVars, variant, conc, call, now, op, nowAt, pre, http,
                   rejected>>

\* a plausible slip: the failed exchange is tried a second time
RefreshFailureRetries(r) ==
    /\ Quiet
    /\ pc[r] = "refreshing"
    /\ IF cnt[r].refreshes < 2
       THEN /\ cnt' = [cnt EXCEPT ![r] = Bump(@, "refreshes")]
            /\ resp' = [resp EXCEPT ![r] = FailedResp]
            /\ UNCHANGED <<accessToken, refreshToken, tokenExpirationTime,
                           store, pc, result, token>>
       ELSE /\ SetMem(Cleared)
            /\ store' = store
            /\ resp' = [resp EXCEPT ![r] = FailedResp]
            /\ cnt' = [cnt EXCEPT ![r] = Bump(@, "invalidations")]
            /\ Settle(r, "null", NULL)
    /\ UNCHANGED <<authVars, variant, conc, call, now, issued, op, nowAt, pre, http,
                   rejected>>

RefreshFailure(r) ==
    /\ Quiet
    /\ pc[r] = "refreshing"
    /\ SetMem(refreshFailed(Mem))
    /\ resp' = [resp EXCEPT ![r] = FailedResp]
    /\ \E made \in BOOLEAN, ok \in BOOLEAN :
         IF variant = "build" /\ op[r] = "ensureToken"
         THEN /\ store' = saveTokens(store, refreshFailed(Mem), made, ok)
              /\ cnt' = [cnt EXCEPT ![r] =
                           Bump(Bump(@, "invalidations"), "writes")]
         ELSE /\ made /\ ok
              /\ store' = store
              /\ cnt' = [cnt EXCEPT ![r] = Bump(@, "invalidations")]
    /\ Settle(r, IF op[r] = "ensureToken" THEN "null"
                 ELSE IF variant = "build" THEN "Authentication expired"
                 ELSE "Not authenticated", NULL)
    /\ UNCHANGED <<authVars, variant, conc, call, now, issued, op, nowAt, pre, http,
                   rejected>>

----------------------------------------------------------------------------
\* The Remote API call settles

\* what the branch of the tool makes of response.data: it reads the fields
\* of the payload it expects (results.playlists.items[i].name, ...), and a
\* payload without them raises a TypeError there
formatted(payload) ==
    IF payload = "expected" THEN "data" ELSE "TypeError"

ApiSuccess(r) ==
    /\ Quiet
    /\ pc[r] = "calling"
    /\ http' = [http EXCEPT ![r] = "200"]
    /\ \E payload \in {"expected", "unexpected"} :
         Settle(r, formatted(payload), token[r])
    /\ UNCHANGED <<authVars, tokenVars, variant, conc, call, now, op, nowAt, pre,
                   cnt, resp, rejected>>

\* a plausible slip: the rejected request is issued a second time
ApiUnauthorizedRetries(r) ==
    /\ Quiet
    /\ pc[r] = "calling"
    /\ http' = [http EXCEPT ![r] = "401"]
    /\ rejected' = token[r]
    /\ IF cnt[r].apiCalls < 2
       THEN /\ cnt' = [cnt EXCEPT ![r] = Bump(@, "apiCalls")]
            /\ UNCHANGED <<accessToken, refreshToken, tokenExpirationTime,
                           pc, result, token>>
       ELSE /\ SetMem(unauthorized(Mem))
            /\ cnt' = [cnt EXCEPT ![r] = Bump(@, "invalidations")]
            /\ Settle(r, "Authorization expired", token[r])
    /\ UNCHANGED <<authVars, variant, conc, call, now, store, issued, op, nowAt,
                   pre, resp>>

\* error.response.status === 401
ApiUnauthorized(r) ==
    /\ Quiet
    /\ pc[r] = "calling"
    /\ http' = [http EXCEPT ![r] = "401"]
    /\ rejected' = token[r]
    /\ IF variant = "build"
       THEN /\ SetMem(unauthorized(Mem))
            /\ cnt' = [cnt EXCEPT ![r] = Bump(@, "invalidations")]
            /\ Settle(r, "Authorization expired", token[r])
       ELSE /\ UNCHANGED <<accessToken, refreshToken, tokenExpirationTime, cnt>>
            /\ Settle(r, "Spotify API error", token[r])
    /\ UNCHANGED <<authVars, variant, conc, call, now, store, issued, op, nowAt,
                   pre, resp>>

\* the message of the AxiosError for outcome h of the Remote API call
axiosMessage(h) ==
    IF h = "no response" THEN <<"Network Error">>
    ELSE <<"Request failed with status code ", h>>

\* the value a failed tool call built on spotifyApiRequest rejects with, res
\* being the branch taken and h the outcome of the Remote API call: the
\* executor throws a plain Error, which has a message and neither a status
\* nor a payload; the CallTool handler throws on what is not a ZodError
thrown(res, h) ==
    [name |-> IF res = "TypeError" THEN "TypeError" ELSE "Error",
     message |->
       CASE res = "TypeError" ->
              <<"Cannot read properties of null">>
         [] res = "Not authenticated" ->
              <<"Not authenticated. Please authorize the app first.">>
         [] res = "Authentication expired" ->
              <<"Authentication expired. Please authenticate again.">>
         [] res = "Authorization expired" ->
              <<"Authorization expired. Please authenticate again.">>
         [] OTHER -> <<"Spotify API error: ">> \o axiosMessage(h),
     status |-> "none",
     data |-> "none"]

\* a plausible slip: every failed call invalidates the token, as the 401 does
ApiErrorInvalidates(r) ==
    /\ Quiet
    /\ pc[r] = "calling"
    /\ \E h \in {"500", "no response"} : http' = [http EXCEPT ![r] = h]
    /\ SetMem(unauthorized(Mem))
    /\ Settle(r, "Spotify API error", token[r])
    /\ UNCHANGED <<authVars, store, issued, variant, conc, call, now, op,
                   nowAt, pre, cnt, resp, rejected>>

\* any other status, or no response at all
ApiError(r) ==
    /\ Quiet
    /\ pc[r] = "calling"
    /\ \E h \in {"500", "no response"} : http' = [http EXCEPT ![r] = h]
    /\ Settle(r, "Spotify API error", token[r])
    /\ UNCHANGED <<authVars, tokenVars, variant, conc, call, now, op, nowAt, pre,
                   cnt, resp, rejected>>

\* what the branch of tool name raises before its first await
raised(name, args) ==
    IF name \notin Tools THEN "Unknown tool"
    ELSE IF ~parse(schemaOf(name), args).ok THEN "ZodError"
    ELSE IF /\ name = "get-recommendations"
            /\ \A f \in {"seedTracks", "seedArtists", "seedGenres"} :
                 args[f] = Undef
         THEN "At least one seed must be provided"
    ELSE "none"

\* the catch of the CallTool handler: a ZodError becomes an Error with the
\* message "Invalid arguments: ...", anything else is thrown on as it is
escaping(e) ==
    IF e = "ZodError" THEN "Invalid arguments" ELSE e

\* the errors that escape the handler before its first await, over the
\* tool names and argument objects a client can send
Rejections ==
    UNION {{escaping(raised(name, args)) :
              args \in IF name \in Tools THEN Inputs(name, {0, 1})
                                        ELSE {NoCall.args}} :
             name \in Tools \cup {"no-such-tool"}} \ {"none"}

\* a plausible slip: the arguments are looked at only after the executor
\* has been entered, which in the build has by then read the token file
\* into an incomplete record
CallToolThrowsAfterLoad ==
    /\ Idle
    /\ \E e \in Rejections : call' = [NoCall EXCEPT !.status = e]
    /\ SetMem(IF variant = "build" /\ requestLoads(Mem)
              THEN inlineLoad(store, Mem) ELSE Mem)
    /\ UNCHANGED <<store, issued>>
    /\ UNCHANGED <<reqVars, authVars, variant, conc, now, rejected>>

\* a tool call whose arguments or name the handler rejects: it throws in
\* the turn in which it was dispatched
CallToolThrows ==
    /\ Idle
    /\ \E e \in Rejections : call' = [NoCall EXCEPT !.status = e]
    /\ UNCHANGED <<tokenVars, reqVars, authVars, variant, conc, now, rejected>>

\* the host has taken the error
CallToolReturn ==
    /\ proc = "running"
    /\ call.status \notin {"none", "received", "parsed"}
    /\ call' = NoCall
    /\ UNCHANGED <<tokenVars, reqVars, authVars, variant, conc, now, rejected>>

\* the caller has taken the outcome; the slot is free for the next call
Return(r) ==
    /\ pc[r] = "done"
    /\ pc' = [pc EXCEPT ![r] = "idle"]
    /\ op' = [op EXCEPT ![r] = "none"]
    /\ nowAt' = [nowAt EXCEPT ![r] = 0]
    /\ token' = [token EXCEPT ![r] = NULL]
    /\ result' = [result EXCEPT ![r] = "none"]
    /\ pre' = [pre EXCEPT ![r] = Cleared]
    /\ cnt' = [cnt EXCEPT ![r] = ZeroCnt]
    /\ resp' = [resp EXCEPT ![r] = NoResp]
    /\ http' = [http EXCEPT ![r] = "none"]
    /\ UNCHANGED <<authVars, tokenVars, variant, conc, call, now, rejected>>

----------------------------------------------------------------------------
\* Authorization flow: the auth-spotify handler and startAuthServer

\* responses the token endpoint can give to a code exchange
ExchangeResponses ==
    [access_token : {issued + 1},
     refresh_token : {NULL, issued + 1},
     expires_in : ExpiresIn]

\* isPortInUse: a probe listener gets EADDRINUSE
isPortInUse == port # "free"

\* where startAuthServer goes first: an existing listener reference is
\* reused, otherwise the port is checked
startAuthServerEntrySkipsReuse == "portCheck"

startAuthServerEntry ==
    IF authServer # "none" THEN "reopen" ELSE "portCheck"

\* the inline load of the auth-spotify handler (build)
handlerLoad(f, m) ==
    IF ParseOk(f) THEN Parse(f) ELSE m

\* slot a begins an auth-spotify call
\* (of two overlapping calls the first takes slot 1, the second slot 2; a
\* third is dispatched once both have returned)
BeginAuth(a) ==
    /\ Running
    /\ apc[a] = "idle"
    /\ \A b \in AuthReq : b < a => conc = "auth" /\ apc[b] # "idle"
    /\ \A b \in AuthReq : b > a => apc[b] = "idle"
    /\ \A r \in Req : pc[r] = "idle"

\* call a moves on to position p
Goto(a, p) ==
    /\ apc' = [apc EXCEPT ![a] = p]
    /\ ares' = ares

\* the startAuthServer call of slot a settles
SettleAuth(a, res) ==
    /\ apc' = [apc EXCEPT ![a] = "done"]
    /\ ares' = [ares EXCEPT ![a] = res]

\* resolve() or reject() of the Promise a listener was created in: it
\* settles the call waiting in position w, if that call is still waiting
SettleWaiting(w, res) ==
    /\ apc' = [a \in AuthReq |-> IF apc[a] = w THEN "done" ELSE apc[a]]
    /\ ares' = [a \in AuthReq |-> IF apc[a] = w THEN res ELSE ares[a]]

\* the position of the call whose Promise the listening socket serves
Waiter ==
    IF authServer = "listening" THEN "pending" ELSE "pendingOrphan"

\* the Promise executor: app.listen assigns the listener reference at once,
\* the bind itself completes later; a listener another call has created in
\* the meantime loses its reference
Listen(a) ==
    /\ authServer' = "binding"
    /\ orphan' = IF authServer # "none" THEN authServer ELSE orphan
    /\ apc' = [b \in AuthReq |->
                 IF b = a THEN "pending"
                 ELSE IF apc[b] = "pending" THEN "pendingOrphan"
                 ELSE apc[b]]
    /\ ares' = ares

\* auth-spotify of the TypeScript source: startAuthServer at once
startAuthServerCall(a) ==
    /\ variant = "ts"
    /\ BeginAuth(a)
    /\ Goto(a, startAuthServerEntry)
    /\ UNCHANGED <<tokenVars, reqVars, variant, conc, call, now, rejected, proc,
                   authServer, orphan, port, cb>>

\* auth-spotify of the build, up to its first await: a token in memory, or
\* else whatever the token file holds, is tested against the Remote API;
\* with nothing to test startAuthServer is called at once
authSpotifyBuild(a) ==
    /\ variant = "build"
    /\ BeginAuth(a)
    /\ IF accessToken # NULL
       THEN /\ Goto(a, "testing")
            /\ UNCHANGED <<accessToken, refreshToken, tokenExpirationTime>>
       ELSE /\ SetMem(handlerLoad(store, Mem))
            /\ Goto(a, IF ParseOk(store) THEN "testing"
                                         ELSE startAuthServerEntry)
    /\ UNCHANGED <<reqVars, variant, conc, call, now, store, issued, rejected, proc,
                   authServer, orphan, port, cb>>

\* a plausible slip: the error of the failed test call ends the tool call
TestSettlesRethrows(a) ==
    /\ Quiet
    /\ apc[a] = "testing"
    /\ \E ok \in BOOLEAN :
         SettleAuth(a, IF ok THEN "Already authenticated" ELSE "test failed")
    /\ UNCHANGED <<tokenVars, reqVars, variant, conc, call, now, rejected, proc,
                   authServer, orphan, port, cb>>

\* the test call settles: "Already authenticated", or on to startAuthServer
TestSettles(a) ==
    /\ Quiet
    /\ apc[a] = "testing"
    /\ \E ok \in BOOLEAN :
         IF ok THEN SettleAuth(a, "Already authenticated")
               ELSE Goto(a, startAuthServerEntry)
    /\ UNCHANGED <<tokenVars, reqVars, variant, conc, call, now, rejected, proc,
                   authServer, orphan, port, cb>>

\* await open(login) on the existing listener
ReopenSettles(a) ==
    /\ Quiet
    /\ apc[a] = "reopen"
    /\ \E ok \in BOOLEAN :
         SettleAuth(a, IF ok THEN "resolved" ELSE "open failed")
    /\ UNCHANGED <<tokenVars, reqVars, variant, conc, call, now, rejected, proc,
                   authServer, orphan, port, cb>>

\* await isPortInUse(PORT)
PortCheckSettles(a) ==
    /\ Quiet
    /\ apc[a] = "portCheck"
    /\ IF isPortInUse
       THEN /\ Goto(a, IF variant = "build" THEN "killing" ELSE "delegating")
            /\ UNCHANGED <<authServer, orphan>>
       ELSE Listen(a)
    /\ UNCHANGED <<tokenVars, reqVars, variant, conc, call, now, rejected, proc,
                   port, cb>>

\* a plausible slip: the delegating call goes on to app.listen
DelegateSettlesListens(a) ==
    /\ Quiet
    /\ apc[a] = "delegating"
    /\ \E ok \in BOOLEAN :
         /\ SettleAuth(a, IF ok THEN "resolved" ELSE "ServerAlreadyRunningError")
         /\ authServer' = IF ok THEN "binding" ELSE authServer
    /\ UNCHANGED <<tokenVars, reqVars, variant, conc, call, now, rejected, proc,
                   orphan, port, cb>>

\* await open(login) of the server holding the port
DelegateSettles(a) ==
    /\ Quiet
    /\ apc[a] = "delegating"
    /\ \E ok \in BOOLEAN :
         SettleAuth(a, IF ok THEN "resolved" ELSE "ServerAlreadyRunningError")
    /\ UNCHANGED <<tokenVars, reqVars, variant, conc, call, now, rejected, proc,
                   authServer, orphan, port, cb>>

\* the bind of a listener completes: 'listening', or 'error' with
\* EADDRINUSE, which rejects the Promise the listener was created in
BindSettles ==
    /\ Quiet
    /\ \E referenced \in BOOLEAN :
         LET srv == IF referenced THEN authServer ELSE orphan
             after == IF port = "free" THEN "listening" ELSE "failed"
         IN  /\ srv = "binding"
             /\ authServer' = IF referenced THEN after ELSE authServer
             /\ orphan' = IF referenced THEN orphan ELSE after
             /\ IF port = "free"
                THEN /\ port' = "self"
                     /\ UNCHANGED <<apc, ares>>
                ELSE /\ port' = port
                     /\ SettleWaiting(IF referenced THEN "pending"
                                                    ELSE "pendingOrphan",
                                      "ServerAlreadyRunningError")
    /\ UNCHANGED <<tokenVars, reqVars, variant, conc, call, now, rejected, proc, cb>>

\* GET /callback reaches the listening socket
Callback ==
    /\ Quiet
    /\ authServer = "listening" \/ orphan = "listening"
    /\ cb = "idle"
    /\ \A r \in Req : pc[r] = "idle"
    /\ \E code \in BOOLEAN :
         IF code
         THEN /\ cb' = "exchanging"
              /\ UNCHANGED <<apc, ares>>
         ELSE /\ cb' = "idle"
              /\ SettleWaiting(Waiter, "No code provided")
    /\ UNCHANGED <<tokenVars, reqVars, variant, conc, call, now, rejected, proc,
                   authServer, orphan, port>>

\* the code exchange succeeds: the tokens are installed and written
ExchangeSuccess ==
    /\ Quiet
    /\ cb = "exchanging"
    /\ issued < MaxIssued
    /\ \E rsp \in ExchangeResponses, made \in BOOLEAN, ok \in BOOLEAN :
         LET m == TokenRecord(rsp.access_token, rsp.refresh_token,
                              now + rsp.expires_in * 1000)
             f == saveTokens(store, m, made, ok)
         IN  /\ SetMem(m)
             /\ IF variant = "build"
                THEN /\ store' = f
                     /\ cb' = IF f = Stringify(m) THEN "verifying"
                                                  ELSE "verifying unsaved"
                     /\ UNCHANGED <<apc, ares>>
                ELSE /\ made /\ ok
                     /\ store' = store
                     /\ cb' = "idle"
                     /\ SettleWaiting(Waiter, "resolved")
    /\ issued' = issued + 1
    /\ UNCHANGED <<reqVars, variant, conc, call, now, rejected, proc, authServer,
                   orphan, port>>

\* the test call of the build settles either way; then resolve()
VerifySettles ==
    /\ Quiet
    /\ cb \in {"verifying", "verifying unsaved"}
    /\ cb' = "idle"
    /\ SettleWaiting(Waiter, "resolved")
    /\ UNCHANGED <<tokenVars, reqVars, variant, conc, call, now, rejected, proc,
                   authServer, orphan, port>>

\* a plausible slip: the failed exchange drops the credentials, as a failed
\* refresh does
ExchangeFailureClears ==
    /\ Quiet
    /\ cb = "exchanging"
    /\ cb' = "idle"
    /\ SettleWaiting(Waiter, "exchange failed")
    /\ SetMem(Cleared)
    /\ UNCHANGED <<store, issued>>
    /\ UNCHANGED <<reqVars, variant, conc, call, now, rejected, proc,
                   authServer, orphan, port>>

\* the code exchange fails: reject(error)
ExchangeFailure ==
    /\ Quiet
    /\ cb = "exchanging"
    /\ cb' = "idle"
    /\ SettleWaiting(Waiter, "exchange failed")
    /\ UNCHANGED <<tokenVars, reqVars, variant, conc, call, now, rejected, proc,
                   authServer, orphan, port>>

\* what the auth-spotify handler makes of the way startAuthServer settled,
\* m being the token record and testOk the answer to its test call: the
\* build wants both tokens and tests the access token; every error is
\* caught and turned into a text
authSpotifyResult(res, m, testOk) ==
    [kind |-> "text",
     text |->
       CASE res = "Already authenticated" -> "Already authenticated"
         [] res = "resolved" /\ variant = "ts" -> "Successfully authenticated"
         [] res = "resolved" /\ variant = "build" ->
              IF m.accessToken = NULL \/ m.refreshToken = NULL
              THEN "Authentication failed: No tokens received"
              ELSE IF testOk THEN "Successfully authenticated"
              ELSE "Authentication failed: tokens are invalid" \* line 853
         [] res = "ServerAlreadyRunningError" ->
              IF variant = "build" /\ m.accessToken # NULL /\ testOk
              THEN "Successfully authenticated"
              ELSE "Another instance is already running"
         [] OTHER -> "Authentication failed"]

\* the rest of the auth-spotify handler once startAuthServer has settled
\* (or the first test call has succeeded): the tool call ends with a text
\* or with an exception
authSpotifySettles(a) ==
    /\ apc[a] = "done"
    /\ \E testOk \in BOOLEAN :
         LET out == authSpotifyResult(ares[a], Mem, testOk)
         IN  /\ apc' = [apc EXCEPT ![a] =
                          IF out.kind = "text" THEN "returned" ELSE "threw"]
             /\ ares' = [ares EXCEPT ![a] = out.text]
    /\ UNCHANGED <<tokenVars, reqVars, variant, conc, call, now, rejected, proc,
                   authServer, orphan, port, cb>>

\* the host has taken the result of the tool call
AuthReturn(a) ==
    /\ apc[a] \in {"returned", "threw"}
    /\ apc' = [apc EXCEPT ![a] = "idle"]
    /\ ares' = [ares EXCEPT ![a] = "none"]
    /\ UNCHANGED <<tokenVars, reqVars, variant, conc, call, now, rejected, proc,
                   authServer, orphan, port, cb>>

----------------------------------------------------------------------------
\* Process lifecycle: signals, exit, the next run

\* cleanup and the beforeExit handler: close the referenced listener and
\* drop the reference
cleanupKeepsReference(srv) == srv

cleanup(srv) ==
    IF srv # "none" THEN "none" ELSE srv

\* authServer.close(): a listening socket gives the port back
closed(srv, p) ==
    IF srv = "listening" THEN "free" ELSE p

\* what is left of the process once it has ended: the listener reference
\* as cleanup left it, the port as cleanup left it unless the process
\* still held it (the system takes it back); the module state is gone;
\* apc, cb and orphan keep where the authorization flow was when the
\* process ended
Ended(srv, p, how) ==
    /\ authServer' = srv
    /\ port' = IF p = "self" THEN "free" ELSE p
    /\ proc' = how
    /\ SetMem(Cleared)
    /\ pc' = [r \in Req |-> "idle"]
    /\ op' = [r \in Req |-> "none"]
    /\ nowAt' = [r \in Req |-> 0]
    /\ token' = [r \in Req |-> NULL]
    /\ result' = [r \in Req |-> "none"]
    /\ pre' = [r \in Req |-> Cleared]
    /\ cnt' = [r \in Req |-> ZeroCnt]
    /\ resp' = [r \in Req |-> NoResp]
    /\ http' = [r \in Req |-> "none"]
    /\ ares' = [a \in AuthReq |-> "none"]
    /\ UNCHANGED <<variant, conc, call, now, store, issued, rejected, apc, cb,
                   orphan>>

\* SIGINT, SIGTERM (exit code 0), an uncaught exception or a fatal error in
\* main (exit code 1): cleanup(), then process.exit, whose 'exit' event runs
\* cleanup() a second time
cleanupAndExit ==
    /\ Running
    /\ \E exitCode \in {0, 1} :
         LET first == cleanup(authServer)
             second == cleanup(first)
         IN  Ended(second, closed(first, closed(authServer, port)),
                   IF exitCode = 0 THEN "exit 0" ELSE "exit 1")

\* the event loop has drained: the beforeExit handler registered by
\* startAuthServer, then the 'exit' event with cleanup()
beforeExit ==
    /\ Running
    /\ cb = "idle"
    /\ \A a \in AuthReq : apc[a] = "idle"
    /\ \A r \in Req : pc[r] = "idle"
    /\ authServer \in {"none", "failed"}
    /\ orphan \in {"none", "failed"}
    /\ LET first == cleanup(authServer)
           second == cleanup(first)
       IN  Ended(second, closed(first, closed(authServer, port)), "exit 0")

\* await execAsync(kill -9 of the processes on the port), build only; a
\* socket of this process on the port makes the process one of them
KillSettles(a) ==
    /\ Quiet
    /\ apc[a] = "killing"
    /\ \E killed \in BOOLEAN :
         IF ~killed
         THEN /\ Goto(a, "delegating")
              /\ UNCHANGED <<tokenVars, reqVars, variant, conc, call, now, rejected,
                             proc, authServer, orphan, port, cb>>
         ELSE IF port = "self"
         THEN Ended(authServer, port, "killed")
         ELSE /\ Goto(a, "recheck")
              /\ port' = IF port = "other" THEN "free" ELSE port
              /\ UNCHANGED <<tokenVars, reqVars, variant, conc, call, now, rejected,
                             proc, authServer, orphan, cb>>

\* the second isPortInUse; its ServerAlreadyRunningError is thrown inside
\* the try block and caught by the catch that opens the login URL
RecheckSettles(a) ==
    /\ Quiet
    /\ apc[a] = "recheck"
    /\ IF isPortInUse
       THEN /\ Goto(a, "delegating")
            /\ UNCHANGED <<authServer, orphan>>
       ELSE Listen(a)
    /\ UNCHANGED <<tokenVars, reqVars, variant, conc, call, now, rejected, proc,
                   port, cb>>

\* the host starts the server again: the module is loaded, and the build
\* runs const tokensLoaded = loadTokens()
moduleLoad ==
    /\ proc # "running"
    /\ proc' = "running"
    /\ SetMem(IF variant = "build" THEN loadTokens(store, Cleared) ELSE Cleared)
    /\ apc' = [a \in AuthReq |-> "idle"]
    /\ cb' = "idle"
    /\ authServer' = "none"
    /\ orphan' = "none"
    /\ UNCHANGED <<reqVars, variant, conc, call, now, store, issued, rejected,
                   port, ares>>

\* SIGUSR1 (build), sent between tool calls: loadTokens() over whatever
\* memory holds
SIGUSR1 ==
    /\ Idle
    /\ variant = "build"
    /\ SetMem(loadTokens(store, Mem))
    /\ UNCHANGED <<authVars, reqVars, variant, conc, call, now, store, issued,
                   rejected>>

\* another process of the same build completes a code exchange or a refresh
\* and writes the token file (between tool calls of this process)
OtherPersists ==
    /\ Idle
    /\ variant = "build"
    /\ issued < MaxIssued
    /\ \E rsp \in ExchangeResponses :
         store' = Stringify(TokenRecord(rsp.access_token, rsp.refresh_token,
                                        now + rsp.expires_in * 1000))
    /\ issued' = issued + 1
    /\ UNCHANGED <<authVars, reqVars, variant, conc, call, now, accessToken,
                   refreshToken, tokenExpirationTime, rejected>>

\* another process binds or releases the port (while this process is not in
\* startAuthServer it does not look at the port)
OtherBinds ==
    /\ Quiet
    /\ \E a \in AuthReq :
         apc[a] \in {"portCheck", "recheck", "pending", "pendingOrphan"}
    /\ port = "free"
    /\ port' = "other"
    /\ UNCHANGED <<tokenVars, reqVars, variant, conc, call, now, rejected, proc,
                   authServer, orphan, apc, ares, cb>>

OtherReleases ==
    /\ Quiet
    /\ \E a \in AuthReq :
         apc[a] \in {"portCheck", "killing", "recheck", "delegating"}
    /\ port = "other"
    /\ port' = "free"
    /\ UNCHANGED <<tokenVars, reqVars, variant, conc, call, now, rejected, proc,
                   authServer, orphan, apc, ares, cb>>

\* time passes
Tick ==
    /\ Quiet
    /\ now < MaxNow
    /\ now' = now + TickMs
    /\ UNCHANGED <<authVars, tokenVars, reqVars, variant, conc, call, rejected>>

Next ==
    \/ Tick
    \/ \E r \in Req : ensureTokenCall(r)
    \/ \E r \in Req : spotifyApiRequestBuild(r)
    \/ \E r \in Req : spotifyApiRequestTs(r)
    \/ \E r \in Req : RefreshSuccess(r)
    \/ \E r \in Req : RefreshFailure(r)
    \/ \E r \in Req : ApiSuccess(r)
    \/ \E r \in Req : ApiUnauthorized(r)
    \/ \E r \in Req : ApiError(r)
    \/ \E r \in Req : Return(r)
    \/ CallToolThrows
    \/ CallToolReturn
    \/ \E a \in AuthReq : startAuthServerCall(a)
    \/ \E a \in AuthReq : authSpotifyBuild(a)
    \/ \E a \in AuthReq : TestSettles(a)
    \/ \E a \in AuthReq : ReopenSettles(a)
    \/ \E a \in AuthReq : PortCheckSettles(a)
    \/ \E a \in AuthReq : KillSettles(a)
    \/ \E a \in AuthReq : RecheckSettles(a)
    \/ \E a \in AuthReq : DelegateSettles(a)
    \/ \E a \in AuthReq : authSpotifySettles(a)
    \/ \E a \in AuthReq : AuthReturn(a)
    \/ BindSettles
    \/ Callback
    \/ ExchangeSuccess
    \/ VerifySettles
    \/ ExchangeFailure
    \/ OtherBinds
    \/ OtherReleases
    \/ cleanupAndExit
    \/ beforeExit
    \/ moduleLoad
    \/ SIGUSR1
    \/ OtherPersists

\* one tool call at a time
Init == InitTokens /\ conc = "none" /\ call = NoCall
Spec == Init /\ [][Next]_vars

\* requests dispatched while another request or the authorization flow is
\* suspended at an await
InitConc == InitTokens /\ conc = "requests" /\ call = NoCall
SpecConc == InitConc /\ [][Next]_vars

\* auth-spotify dispatched while another auth-spotify call is suspended
InitAuthConc == InitTokens /\ conc = "auth" /\ call = NoCall
SpecAuthConc == InitAuthConc /\ [][Next]_vars

----------------------------------------------------------------------------------------------------------------------------------------------------------------------------------------------------
\* Argument validation on its own: a tool call has been received with any
\* of the argument objects a client can send, and the handler parses it

InitSchema ==
    /\ InitTokens
    /\ conc = "none"
    /\ store = Missing
    /\ port = "free"
    /\ call \in UNION {{[name |-> name, args |-> args, status |-> "received",
                          out |-> NoCall.out] :
                           args \in Inputs(name, 0..MaxLimit)} : name \in Tools}

\* const {...} = Schema.parse(args), first statement of the tool's branch
CallToolParse ==
    /\ call.status = "received"
    /\ LET p == parse(schemaOf(call.name), call.args)
       IN  call' = [call EXCEPT !.status = IF p.ok THEN "parsed" ELSE "ZodError",
                                !.out = p.data]
    /\ UNCHANGED <<tokenVars, reqVars, authVars, variant, conc, now, rejected>>

NextSchema == CallToolParse

SpecSchema == InitSchema /\ [][NextSchema]_vars

----------------
\* Progress: every network call, bind and browser launch the program awaits
\* settles, and a settled call returns to its caller. Nothing obliges the
\* user to finish the login in the browser (Callback), another process to
\* act, the clock to reach an expiry, or a signal to arrive.
Settles ==
    \/ \E r \in Req : RefreshSuccess(r) \/ RefreshFailure(r)
    \/ \E r \in Req : ApiSuccess(r) \/ ApiUnauthorized(r) \/ ApiError(r)
    \/ \E r \in Req : Return(r)
    \/ CallToolReturn
    \/ \E a \in AuthReq : TestSettles(a) \/ ReopenSettles(a)
    \/ \E a \in AuthReq : PortCheckSettles(a) \/ KillSettles(a)
    \/ \E a \in AuthReq : RecheckSettles(a) \/ DelegateSettles(a)
    \/ \E a \in AuthReq : authSpotifySettles(a) \/ AuthReturn(a)
    \/ BindSettles
    \/ ExchangeSuccess
    \/ ExchangeFailure
    \/ VerifySettles

SpecLive == Init /\ [][Next]_vars /\ WF_vars(Settles)

----------------
\* Properties of the token manager and the request executor

\* C1: a call that begins with a non-null access token expiring more than
\* 60 s from now hands out that token, issues no token-endpoint call, does
\* not read or write the token store and leaves the record unchanged
\* (whatever the refresh token is).
C1_Freshness ==
    [][\A r \in Req :
         (/\ pc[r] = "idle" /\ pc'[r] # "idle"
          /\ accessToken # NULL
          /\ tokenExpirationTime > now + SAFETY_MARGIN)
         => /\ token'[r] = accessToken
            /\ cnt'[r].refreshes = 0
            /\ cnt'[r].reads = 0
            /\ cnt'[r].writes = 0
            /\ accessToken' = accessToken
            /\ refreshToken' = refreshToken
            /\ tokenExpirationTime' = tokenExpirationTime
            /\ store' = store]_vars

\* C2 (as claimed): a call that begins with a stale record and a refresh
\* token issues exactly one refresh exchange, and whenever the exchange
\* succeeds, for any returned lifetime, the new expiresAt is strictly later
\* than the one the record had before the call.
C2_Refresh ==
    [][\A r \in Req :
         /\ (/\ pc[r] = "idle" /\ pc'[r] # "idle"
             /\ refreshToken # NULL
             /\ tokenExpirationTime <= now + SAFETY_MARGIN)
            => (pc'[r] = "refreshing" /\ cnt'[r].refreshes = 1)
         /\ (/\ pc[r] = "refreshing" /\ pc'[r] # "refreshing"
             /\ proc' = "running"
             /\ pre[r].refreshToken # NULL
             /\ pre[r].tokenExpirationTime <= nowAt[r] + SAFETY_MARGIN)
            => /\ cnt'[r].refreshes = 1
               /\ resp'[r].status = "ok"
                  => tokenExpirationTime' > pre[r].tokenExpirationTime]_vars

\* C2 (amended): as C2, but the new expiresAt is the call's now plus the
\* returned lifetime, and it is strictly later than the previous expiresAt
\* whenever the returned lifetime exceeds the 60 s margin.
C2_RefreshAmended ==
    [][\A r \in Req :
         /\ (/\ pc[r] = "idle" /\ pc'[r] # "idle"
             /\ refreshToken # NULL
             /\ tokenExpirationTime <= now + SAFETY_MARGIN)
            => (pc'[r] = "refreshing" /\ cnt'[r].refreshes = 1)
         /\ (/\ pc[r] = "refreshing" /\ pc'[r] # "refreshing"
             /\ proc' = "running"
             /\ pre[r].refreshToken # NULL
             /\ pre[r].tokenExpirationTime <= nowAt[r] + SAFETY_MARGIN)
            => /\ cnt'[r].refreshes = 1
               /\ resp'[r].status = "ok"
                  => /\ tokenExpirationTime' =
                          nowAt[r] + resp'[r].expires_in * 1000
                     /\ resp'[r].expires_in * 1000 > SAFETY_MARGIN
                        => tokenExpirationTime' > pre[r].tokenExpirationTime]_vars

C2_Witness ==
    \E r \in Req :
        /\ pc[r] \in {"calling", "done"}
        /\ resp[r].status = "ok"
        /\ cnt[r].refreshes = 1
        /\ pre[r].refreshToken # NULL
        /\ pre[r].tokenExpirationTime <= nowAt[r] + SAFETY_MARGIN
        /\ resp[r].expires_in * 1000 > SAFETY_MARGIN
        /\ tokenExpirationTime > pre[r].tokenExpirationTime

\* C3: the step in which a refresh succeeds leaves the record with the
\* returned access token, expiresAt = the call's now + returned lifetime
\* (seconds x 1000), and the returned refresh token if there is one,
\* else the refresh token it had.
C3_RefreshedRecord ==
    [][\A r \in Req :
         (/\ pc[r] = "refreshing" /\ pc'[r] # "refreshing"
          /\ resp'[r].status = "ok")
         => /\ accessToken' = resp'[r].access_token
            /\ tokenExpirationTime' = nowAt[r] + resp'[r].expires_in * 1000
            /\ refreshToken' = IF resp'[r].refresh_token # NULL
                               THEN resp'[r].refresh_token
                               ELSE refreshToken]_vars

C3_Witness ==
    \E r \in Req :
        /\ resp[r].status = "ok"
        /\ resp[r].refresh_token = NULL
        /\ accessToken = resp[r].access_token
        /\ refreshToken # NULL
        /\ refreshToken = pre[r].refreshToken
        /\ tokenExpirationTime = nowAt[r] + resp[r].expires_in * 1000
        /\ now > nowAt[r]

\* C4: the step in which a refresh fails ends the call with all three
\* fields reset and without a token for the caller.
C4_RefreshFailureClears ==
    [][\A r \in Req :
         (/\ pc[r] = "refreshing" /\ pc'[r] # "refreshing"
          /\ resp'[r].status = "failed")
         => /\ accessToken' = NULL
            /\ refreshToken' = NULL
            /\ tokenExpirationTime' = 0
            /\ pc'[r] = "done"
            /\ token'[r] = NULL
            /\ result'[r] \in {"null", "Authentication expired",
                               "Not authenticated"}]_vars

C4_Witness ==
    \E r \in Req :
        /\ pc[r] = "done"
        /\ resp[r].status = "failed"
        /\ pre[r].accessToken # NULL /\ pre[r].refreshToken # NULL
        /\ Mem = Cleared
        /\ token[r] = NULL

\* C5: the step in which a refresh fails leaves no access or refresh token
\* in the token store.
C5_RefreshFailureClearsStore ==
    [][\A r \in Req :
         (/\ pc[r] = "refreshing" /\ pc'[r] # "refreshing"
          /\ resp'[r].status = "failed")
         => \/ ~ParseOk(store')
            \/ /\ Parse(store').accessToken = NULL
               /\ Parse(store').refreshToken = NULL]_vars

\* C6: a 401 invalidates the token once and fails the request with
\* "Authorization expired", and no Remote API call issued afterwards carries
\* the access token the Remote API has just rejected.
C6_OneShotInvalidation ==
    [][\A r \in Req :
         /\ (pc[r] = "calling" /\ http'[r] = "401")
            => /\ cnt'[r].invalidations = cnt[r].invalidations + 1
               /\ result'[r] = "Authorization expired"
         /\ (pc[r] # "calling" /\ pc'[r] = "calling")
            => token'[r] # rejected]_vars

\* C7: right after the invalidation that follows a 401 the memory is
\* cleared and the token store holds the cleared record.
C7_InvalidationPersisted ==
    [][\A r \in Req :
         (pc[r] = "calling" /\ http'[r] = "401")
         => /\ Mem' = Cleared
            /\ store' = Stringify(Cleared)]_vars

\* C8: with nothing in memory and no usable record in the token store a
\* call ends at once, ensureToken with null and spotifyApiRequest with
\* "Not authenticated", and makes no network call.
C8_NoCredential ==
    [][\A r \in Req :
         (/\ pc[r] = "idle" /\ pc'[r] # "idle"
          /\ Mem = Cleared
          /\ \/ ~ParseOk(store)
             \/ /\ Parse(store).accessToken = NULL
                /\ Parse(store).refreshToken = NULL)
         => /\ pc'[r] = "done"
            /\ result'[r] = IF op'[r] = "ensureToken" THEN "null"
                            ELSE "Not authenticated"
            /\ token'[r] = NULL
            /\ cnt'[r].refreshes = 0
            /\ cnt'[r].apiCalls = 0]_vars

C8_Witness ==
    \E r \in Req :
        /\ pc[r] = "done"
        /\ op[r] = "spotifyApiRequest"
        /\ result[r] = "Not authenticated"
        /\ pre[r] = Cleared
        /\ Mem = Cleared
        /\ store = Invalid
        /\ cnt[r].reads = 1 /\ cnt[r].refreshes = 0 /\ cnt[r].apiCalls = 0

\* C9 (as claimed): a request whose attempt was answered 401 has made
\* exactly two Remote API attempts when it ends, if a token could be
\* re-acquired.
C9_RetryOnce ==
    \A r \in Req :
        (/\ pc[r] = "done" /\ http[r] = "401"
         /\ \/ refreshToken # NULL
            \/ ParseOk(store) /\ Parse(store).accessToken # NULL)
        => cnt[r].apiCalls = 2

\* C9 (amended): a 401 ends the request in the same step, after its one
\* and only Remote API attempt; the build clears the record in memory and
\* fails with "Authorization expired", the TypeScript source keeps the
\* record and fails with "Spotify API error".
C9_NoRetry ==
    [][\A r \in Req :
         (pc[r] = "calling" /\ http'[r] = "401")
         => /\ pc'[r] = "done"
            /\ cnt'[r].apiCalls = 1
            /\ IF variant = "build"
               THEN /\ Mem' = Cleared
                    /\ cnt'[r].invalidations = cnt[r].invalidations + 1
                    /\ result'[r] = "Authorization expired"
               ELSE /\ Mem' = Mem
                    /\ cnt'[r].invalidations = cnt[r].invalidations
                    /\ result'[r] = "Spotify API error"]_vars

C9_Witness ==
    \E r \in Req :
        /\ pc[r] = "done" /\ http[r] = "401"
        /\ result[r] = "Authorization expired"
        /\ cnt[r].apiCalls = 1
        /\ cnt[r].invalidations = 1
        /\ ParseOk(store) /\ Parse(store).accessToken = token[r]

\* C10: a call never issues more than one Remote API call, one refresh
\* exchange and one invalidation, and no step of a call touches the
\* listener, the port or the authorization flow (the end of the process is
\* not a step of a call).
C10_NoSilentRetry ==
    [][\A r \in Req :
         /\ cnt'[r].apiCalls <= 1
         /\ cnt'[r].refreshes <= 1
         /\ cnt'[r].invalidations <= 1
         /\ (reqVars' # reqVars /\ proc' = "running")
            => UNCHANGED <<authServer, orphan, port, apc, ares, cb,
                        proc>>]_vars

C10_Witness ==
    \E r \in Req :
        /\ pc[r] = "done"
        /\ op[r] = "spotifyApiRequest"
        /\ cnt[r].refreshes = 1
        /\ cnt[r].apiCalls = 1
        /\ cnt[r].invalidations = 1
        /\ authServer = "listening"

----------------------------------------------------------------------------
\* Properties of the token store, the authorization flow and the lifecycle

\* C11: whatever record the token file holds (a null access or refresh token
\* and the cleared record included), a process that starts with empty memory
\* and loads it holds that record, field for field.
C11_RoundTrip ==
    [][(/\ proc # "running" /\ proc' = "running"
        /\ variant = "build"
        /\ ParseOk(store))
       => /\ accessToken' = Parse(store).accessToken
          /\ refreshToken' = Parse(store).refreshToken
          /\ tokenExpirationTime' = Parse(store).tokenExpirationTime]_vars

\* C12: a load that finds the token file missing, empty or not JSON reports
\* "absent" and assigns nothing: loadTokens (module load, ensureToken)
\* leaves the record as it was and ensureToken answers as without a store;
\* the inline load of spotifyApiRequest leaves the record as it was (the
\* only change such a step makes is the invalidation of an expired token
\* without refresh token, reported as "Authentication expired"), and the
\* call ends as a normal outcome of the executor; the inline load of the
\* auth-spotify handler leaves the record as it was and goes on to
\* startAuthServer.
C12_CorruptionTolerance ==
    [][~ParseOk(store) =>
         /\ (proc # "running" /\ proc' = "running") => Mem' = Cleared
         /\ \A r \in Req :
              (pc[r] = "idle" /\ cnt'[r].reads = 1)
              => /\ refreshToken' = refreshToken
                 /\ tokenExpirationTime' \in {tokenExpirationTime, 0}
                 /\ accessToken' \in {accessToken, NULL}
                 /\ Mem' # Mem => result'[r] = "Authentication expired"
                 /\ op'[r] = "ensureToken" => result'[r] = "null"
                 /\ result'[r] \in {"none", "null", "Not authenticated",
                                    "Authentication expired"}
         /\ \A a \in AuthReq :
              (/\ variant = "build" /\ proc = "running"
               /\ apc[a] = "idle" /\ apc'[a] # "idle"
               /\ accessToken = NULL)
              => /\ Mem' = Mem
                 /\ apc'[a] \in {"portCheck", "reopen"}]_vars

C12_Witness ==
    \E r \in Req :
        /\ store = Invalid
        /\ op[r] = "spotifyApiRequest"
        /\ cnt[r].reads = 1
        /\ pc[r] = "calling"
        /\ pre[r].accessToken # NULL
        /\ Mem = pre[r]

\* C13: a call that finds the port held by another process goes on to
\* delegation and to nothing else, with the holder still on the port and no
\* listener created; delegation ends with success or with
\* ServerAlreadyRunningError and creates no listener; and the holder leaves
\* the port only by itself, never through a step of this process.
C13_PortContention ==
    [][\A a \in AuthReq :
         /\ (/\ apc[a] = "portCheck" /\ apc'[a] # "portCheck"
             /\ port = "other" /\ proc' = "running")
            => /\ apc'[a] = "delegating"
               /\ port' = "other"
               /\ authServer' = authServer
         /\ (/\ apc[a] = "delegating" /\ apc'[a] # "delegating"
             /\ proc' = "running")
            => /\ apc'[a] = "done"
               /\ ares'[a] \in {"resolved", "ServerAlreadyRunningError"}
               /\ authServer' = authServer
               /\ port' = port
         /\ (port = "other" /\ port' # "other") => apc' = apc]_vars

\* C14 (as claimed): a call that enters startAuthServer while this process
\* owns a listening socket goes to the re-open of the login URL, without
\* port check or bind, and then returns success with the listener and the
\* port as they were.
C14_ReentrantStart ==
    [][\A a \in AuthReq :
         /\ (/\ authServer = "listening"
             /\ apc[a] \in {"idle", "testing"}
             /\ apc'[a] \in {"reopen", "portCheck"})
            => /\ apc'[a] = "reopen"
               /\ UNCHANGED <<authServer, orphan, port>>
         /\ (/\ authServer = "listening"
             /\ apc[a] = "reopen" /\ apc'[a] # "reopen"
             /\ proc' = "running")
            => /\ apc'[a] = "done"
               /\ ares'[a] = "resolved"
               /\ UNCHANGED <<authServer, orphan, port>>]_vars

\* C14 (amended): as C14, but the call returns success when the login URL
\* could be opened and fails with the error of the open otherwise; in both
\* cases the listener and the port are as they were.
C14_ReentrantStartAmended ==
    [][\A a \in AuthReq :
         /\ (/\ authServer = "listening"
             /\ apc[a] \in {"idle", "testing"}
             /\ apc'[a] \in {"reopen", "portCheck"})
            => /\ apc'[a] = "reopen"
               /\ UNCHANGED <<authServer, orphan, port>>
         /\ (/\ authServer = "listening"
             /\ apc[a] = "reopen" /\ apc'[a] # "reopen"
             /\ proc' = "running")
            => /\ apc'[a] = "done"
               /\ ares'[a] \in {"resolved", "open failed"}
               /\ UNCHANGED <<authServer, orphan, port>>]_vars

C14_Witness ==
    \E a \in AuthReq :
        /\ apc[a] = "done"
        /\ ares[a] = "resolved"
        /\ authServer = "listening"
        /\ port = "self"
        /\ cb = "exchanging"

\* C15: of two overlapping auth-spotify calls at most one waits for a
\* callback, at most one listener is created, and the second call does not
\* settle its startAuthServer before the first has settled, and settles
\* with the outcome of the first.
C15_SingleFlight ==
    [][/\ orphan' = "none"
       /\ ~(apc'[1] \in {"pending", "pendingOrphan"}
            /\ apc'[2] \in {"pending", "pendingOrphan"})
       /\ (/\ apc[2] \notin {"idle", "done"} /\ apc'[2] = "done"
           /\ ares'[2] # "Already authenticated")
          => /\ apc'[1] \in {"idle", "done"}
             /\ apc'[1] = "done" => ares'[1] = ares'[2]]_vars

\* C16: a request of a process with empty memory, the token file holding a
\* record with an access token, loads the record; when the stored token is
\* fresh the Remote API call goes out with it, when it is stale and a
\* refresh token is stored the refresh exchange is issued and, succeeding,
\* is followed by the Remote API call with the new token; the listener, the
\* port and the authorization flow are not touched.
C16_SharedLogin ==
    [][\A r \in Req :
         /\ (/\ pc[r] = "idle" /\ pc'[r] # "idle"
             /\ op'[r] = "spotifyApiRequest"
             /\ Mem = Cleared
             /\ ParseOk(store)
             /\ Parse(store).accessToken # NULL)
            => /\ cnt'[r].reads = 1
               /\ UNCHANGED <<authServer, orphan, port, apc, ares, cb>>
               /\ now < Parse(store).tokenExpirationTime - SAFETY_MARGIN
                  => /\ pc'[r] = "calling"
                     /\ token'[r] = Parse(store).accessToken
                     /\ Mem' = Parse(store)
               /\ (/\ now >= Parse(store).tokenExpirationTime - SAFETY_MARGIN
                   /\ Parse(store).refreshToken # NULL)
                  => /\ pc'[r] = "refreshing"
                     /\ Mem' = Parse(store)
         /\ (/\ pc[r] = "refreshing" /\ pc'[r] # "refreshing"
             /\ op[r] = "spotifyApiRequest"
             /\ pre[r] = Cleared
             /\ resp'[r].status = "ok")
            => /\ pc'[r] = "calling"
               /\ token'[r] = resp'[r].access_token
               /\ accessToken' = token'[r]
               /\ UNCHANGED <<authServer, orphan, port, apc, ares, cb>>]_vars

C16_Witness ==
    \E r \in Req :
        /\ variant = "build"
        /\ pc[r] = "calling"
        /\ pre[r] = Cleared
        /\ cnt[r].reads = 1
        /\ cnt[r].refreshes = 0
        /\ authServer = "none"
        /\ token[r] = 2
        /\ Parse(store).accessToken = 2
        /\ accessToken = 2

\* C17: in the step that resolves the pending call through a callback
\* whose exchange succeeded, memory holds an access token and, unless the
\* write of the token file failed, the token file holds the record that is
\* in memory.
C17_ExchangeOrdering ==
    [][\A a \in AuthReq :
         (/\ apc[a] \in {"pending", "pendingOrphan"}
          /\ apc'[a] = "done"
          /\ ares'[a] = "resolved")
         => /\ accessToken' # NULL
            /\ cb # "verifying unsaved" => store' = Stringify(Mem')]_vars

\* C18: in the step in which the callback fails the pending call (no code,
\* or the exchange failed) the listener is released: the process holds no
\* listener reference and no longer holds the port.
C18_FailureReleasesListener ==
    [][\A a \in AuthReq :
         (/\ apc[a] \in {"pending", "pendingOrphan"}
          /\ apc'[a] = "done"
          /\ ares'[a] \in {"No code provided", "exchange failed"})
         => /\ authServer' = "none"
            /\ port' # "self"]_vars

\* C19: in the step that resolves the pending call through a successful
\* callback the session ends: the process owns no listening socket and no
\* longer holds the port, so that no further callback is taken.
C19_SessionEnds ==
    [][\A a \in AuthReq :
         (/\ apc[a] \in {"pending", "pendingOrphan"}
          /\ apc'[a] = "done"
          /\ ares'[a] = "resolved")
         => /\ authServer' # "listening"
            /\ orphan' # "listening"
            /\ port' # "self"]_vars

\* C20: when the process ends through a handled exit path, in whatever
\* position the authorization flow is, cleanup has closed every listener,
\* the listener reference is none and the process no longer holds the
\* port; with no listener to close the port is left as it was; the token
\* file is not touched.
C20_CleanupOnExit ==
    [][(proc = "running" /\ proc' \in {"exit 0", "exit 1"})
       => /\ authServer' = "none"
          /\ orphan' \notin {"binding", "listening"}
          /\ port' # "self"
          /\ port' = IF authServer = "listening" THEN "free" ELSE port
          /\ authServer = "none" => port' = port
          /\ store' = store]_vars

C20_Witness ==
    /\ proc = "exit 1"
    /\ \E a \in AuthReq : apc[a] = "pending"
    /\ cb = "exchanging"
    /\ authServer = "none"
    /\ port = "free"

------------------------------------------------------------

----------------------------------------------------------------------------
\* C21: a failed write of the token store is not fatal. When the write after
\* a successful refresh or code exchange fails, the operation goes on (the
\* refreshed call attaches or returns the new token, the exchange goes on to
\* resolve the pending authorization), memory holds the new tokens, and a
\* later request of the same process made while that token is fresh uses it.
\* A missing directory is created before the write: from a store without
\* its directory a save can leave the written file.

\* memory holds the complete record issued last and the store does not: its
\* write failed
Unsaved ==
    /\ variant = "build"
    /\ accessToken # NULL
    /\ refreshToken # NULL
    /\ accessToken = issued
    /\ store # Stringify(Mem)

C21_DirectoryFirst ==
    (variant = "build" /\ Quiet /\ issued < MaxIssued /\ store = NoDir)
    => /\ \A r \in Req :
            pc[r] = "refreshing"
            => ENABLED (RefreshSuccess(r) /\ ParseOk(store'))
       /\ cb = "exchanging" => ENABLED (ExchangeSuccess /\ ParseOk(store'))

----------------------------------------------------------------------------
\* C22: the failure of an authenticated request is one of four conditions
\* that can be told apart: a non-2xx response other than the rejected
\* credential yields a RemoteAPIError that carries the status code and the
\* payload, and a transport failure yields a different, generic error.
C22_ErrorClassification ==
    \A r \in Req :
      (pc[r] = "done" /\ op[r] = "spotifyApiRequest")
      => LET e == thrown(result[r], http[r])
         IN  /\ http[r] = "500"
                => e.status = "500" /\ e.data # "none"
             /\ http[r] = "no response"
                => /\ e.status = "none"
                   /\ e # thrown(result[r], "500")

----------------------------------------------------------------------------
\* C23 (as claimed): every access token attached to a Remote API call is
\* non-null and, at the moment the call is issued, more than 60 s from its
\* expiry, whether it was in memory, was loaded from the store or was just
\* obtained by a refresh.
C23_UsableAtUse ==
    [][\A r \in Req :
         (pc[r] # "calling" /\ pc'[r] = "calling")
         => /\ token'[r] # NULL
            /\ token'[r] = accessToken'
            /\ now' < tokenExpirationTime' - SAFETY_MARGIN]_vars

\* C23 (amended): the attached token is the non-null access token of the
\* record; when the call did not refresh (token in memory or just loaded) it
\* is more than 60 s from its expiry; a token just obtained by a refresh is
\* attached without a freshness test, its expiry being the instant the
\* request began plus the returned lifetime, so it is more than 60 s from
\* expiry exactly when the lifetime exceeds 60 s plus the time the refresh
\* took.
C23_UsableAtUseAmended ==
    [][\A r \in Req :
         (pc[r] # "calling" /\ pc'[r] = "calling")
         => /\ token'[r] # NULL
            /\ token'[r] = accessToken'
            /\ IF pc[r] = "idle"
               THEN now' < tokenExpirationTime' - SAFETY_MARGIN
               ELSE /\ tokenExpirationTime' =
                         nowAt[r] + resp'[r].expires_in * 1000
                    /\ (now' < tokenExpirationTime' - SAFETY_MARGIN)
                       <=> (resp'[r].expires_in * 1000 >
                              SAFETY_MARGIN + (now - nowAt[r]))]_vars

\* a request read a fresh record from the store and attached its token
C23_Witness ==
    \E r \in Req :
      /\ pc[r] = "calling"
      /\ cnt[r].reads = 1
      /\ cnt[r].refreshes = 0
      /\ token[r] = accessToken
      /\ now < tokenExpirationTime - SAFETY_MARGIN

----------------------------------------------------------------------------
\* C24: across every interleaving of concurrent calls that find the token
\* stale, at most one refresh exchange is in flight at any time.
C24_RefreshMutex ==
    \A r, q \in Req :
      (pc[r] = "refreshing" /\ pc[q] = "refreshing") => r = q

----------------------------------------------------------------------------
\* C25: every authorization flow that is waiting for the callback on its
\* listening socket is eventually resolved or rejected, even if no callback
\* ever arrives (unless the process ends first).
C25_BoundedPending ==
    \A a \in AuthReq :
      (proc = "running" /\ apc[a] = "pending" /\ authServer = "listening")
      ~> (proc # "running" \/ apc[a] # "pending")

----------------------------------------------------------------------------
\* C30: the search tool accepts a limit iff it is a number from 1 to 50 (or
\* is omitted, and then 10 is filled in, as "track" is for an omitted type);
\* the recommendations tool accepts a limit iff it is a number from 1 to 100
\* (omitted: 20); a type outside the enumerated set, a limit outside the
\* bounds or a missing required field (query, trackId, name, playlistId,
\* trackIds) is rejected.

\* an optional field is absent or has the type
Absent(x) == x.t = "undefined"
LimitWithin(x, lo, hi) == x.t = "number" /\ lo <= x.n /\ x.n <= hi

C30_ArgumentBounds ==
    call.status \in {"parsed", "ZodError"}
    => LET a == call.args
           accepted == call.status = "parsed"
       IN  /\ call.name = "search-spotify"
              => /\ accepted <=>
                      /\ a.query.t = "string"
                      /\ Absent(a.type) \/ (a.type.t = "string" /\ a.type.s \in SearchTypes)
                      /\ Absent(a.limit) \/ LimitWithin(a.limit, 1, 50)
                 /\ accepted
                    => /\ call.out.query = a.query
                       /\ call.out.type = IF Absent(a.type) THEN Str("track") ELSE a.type
                       /\ call.out.limit = IF Absent(a.limit) THEN Num(10) ELSE a.limit
           /\ call.name = "get-recommendations"
              => /\ accepted <=>
                      /\ \A f \in {"seedTracks", "seedArtists", "seedGenres"} :
                           Absent(a[f]) \/ a[f].t = "array"
                      /\ Absent(a.limit) \/ LimitWithin(a.limit, 1, 100)
                 /\ accepted
                    => call.out.limit = IF Absent(a.limit) THEN Num(20) ELSE a.limit
           /\ call.name = "play-track" => (Absent(a.trackId) => ~accepted)
           /\ call.name = "create-playlist" => (Absent(a.name) => ~accepted)
           /\ call.name = "add-tracks-to-playlist"
              => ((Absent(a.playlistId) \/ Absent(a.trackIds)) => ~accepted)

\* a search without type and limit was accepted and the defaults filled in
C30_Witness ==
    /\ call.name = "search-spotify"
    /\ call.status = "parsed"
    /\ Absent(call.args.type) /\ Absent(call.args.limit)
    /\ call.out.type = Str("track") /\ call.out.limit = Num(10)

----------------------------------------------------------------------------
\* C26: auth-spotify always ends with a text and never throws; every error
\* escaping another tool is an Error made by the executor or the handler
\* with a formatted message ('Not authenticated...', 'Authorization
\* expired...', 'Authentication expired...', 'Spotify API error: ...',
\* 'Invalid arguments: ...', 'Unknown tool: ...', 'At least one seed...').

AuthTexts ==
    {"Already authenticated", "Successfully authenticated",
     "Another instance is already running", "Authentication failed",
     "Authentication failed: No tokens received",
     "Authentication failed: tokens are invalid"}

C26_FormattedErrors ==
    /\ \A a \in AuthReq :
         /\ apc[a] # "threw"
         /\ (proc = "running" /\ apc[a] = "returned")
            => ares[a] \in AuthTexts
    /\ \A r \in Req :
         (pc[r] = "done" /\ op[r] = "spotifyApiRequest" /\ result[r] # "data")
         => LET e == thrown(result[r], http[r])
            IN  /\ e.name = "Error"
                /\ Head(e.message) \in
                     {"Not authenticated. Please authorize the app first.",
                      "Authorization expired. Please authenticate again.",
                      "Authentication expired. Please authenticate again.",
                      "Spotify API error: "}
    /\ call.status # "none"
       => call.status \in {"Invalid arguments", "Unknown tool",
                           "At least one seed must be provided"}

----------------------------------------------------------------------------
\* C27: when the Remote API call of an authenticated request fails with a
\* status other than 401 or with no response, spotifyApiRequest rejects
\* with an error whose message is 'Spotify API error: ' followed by the
\* underlying message, and the token record in memory and the store are
\* left as they were.
C27_ApiErrorKeepsTokens ==
    [][\A r \in Req :
         (/\ pc[r] = "calling"
          /\ http'[r] \in {"500", "no response"})
         => /\ pc'[r] = "done"
            /\ thrown(result'[r], http'[r]).message =
                 <<"Spotify API error: ">> \o axiosMessage(http'[r])
            /\ UNCHANGED <<accessToken, refreshToken, tokenExpirationTime,
                           store>>]_vars

\* a request made with a token in memory failed with a 500
C27_Witness ==
    \E r \in Req :
      /\ pc[r] = "done"
      /\ http[r] = "500"
      /\ result[r] = "Spotify API error"
      /\ accessToken # NULL
      /\ accessToken = token[r]
      /\ ParseOk(store)

----------------------------------------------------------------------------
\* C28: a call that finds the access token stale or missing and no refresh
\* token, in memory and in the store, ends with AuthenticationRequired as
\* it does when there is no credential at all (ensureToken returns null,
\* the executor fails with 'Not authenticated'), without a call to the
\* token endpoint or to the Remote API.

\* record m gives neither a usable access token nor a refresh token at n
NothingUsable(m, n) ==
    /\ m.refreshToken = NULL
    /\ m.accessToken = NULL \/ n >= m.tokenExpirationTime - SAFETY_MARGIN

C28_NoRefreshToken ==
    [][\A r \in Req :
         (/\ pc[r] = "idle" /\ pc'[r] # "idle"
          /\ NothingUsable(Mem, now)
          /\ ParseOk(store) => NothingUsable(Parse(store), now))
         => /\ pc'[r] = "done"
            /\ result'[r] = IF op'[r] = "ensureToken" THEN "null"
                                                      ELSE "Not authenticated"
            /\ cnt'[r].refreshes = 0
            /\ cnt'[r].apiCalls = 0]_vars

----------------------------------------------------------------------------
\* C29: a startAuthServer call that finds the port held by another process
\* and ends by opening that process's login URL creates no listener (the
\* listener reference stays none), starts no code exchange, and leaves the
\* token record in memory and the token store as they were, from the port
\* check to the moment it resolves.
C29_DelegationNoState ==
    [][\A a \in AuthReq :
         (/\ proc = "running" /\ proc' = "running"
          /\ \/ apc[a] = "portCheck" /\ apc'[a] \in {"killing", "delegating"}
             \/ apc[a] \in {"killing", "delegating"}
          /\ port' # "self")
         => /\ authServer' = "none"
            /\ orphan' = orphan
            /\ cb' = "idle"
            /\ UNCHANGED <<accessToken, refreshToken, tokenExpirationTime,
                           store, issued>>
            /\ apc[a] = "delegating" /\ apc'[a] = "done"
               => ares'[a] \in {"resolved", "ServerAlreadyRunningError"}]_vars

\* the login URL of the process holding the port was opened
C29_Witness ==
    \E a \in AuthReq :
      /\ apc[a] = "done"
      /\ ares[a] = "resolved"
      /\ port = "other"
      /\ authServer = "none"

----------------------------------------------------------------------------
\* Properties of the port handling and of the authorization callback

\* C31: in the build, when the port is still in use at the check that
\* follows the kill attempt, startAuthServer fails with
\* ServerAlreadyRunningError: the call settles at that step with that error
\* and does not go on to open the login URL in the browser.
C31_StillInUseFails ==
    [][\A a \in AuthReq :
         (/\ proc = "running" /\ proc' = "running"
          /\ apc[a] = "recheck" /\ apc'[a] # "recheck"
          /\ isPortInUse)
         => /\ apc'[a] = "done"
            /\ ares'[a] = "ServerAlreadyRunningError"]_vars

\* C32: listener ownership. While the process runs, the listener reference
\* authServer is non-null only for a listener of this process that is being
\* bound or is listening on the port; in particular, after a bind that
\* failed with EADDRINUSE the process holds no listener reference.
C32_ListenerOwnership ==
    proc = "running" /\ authServer # "none"
    => \/ authServer = "binding"
       \/ authServer = "listening" /\ port = "self"

\* C33: a failed authorization callback changes no token state. A callback
\* without a code fails the pending call in the step in which it arrives,
\* without a token-endpoint call; a callback with a code changes nothing
\* when it arrives, and when its exchange fails the pending call is failed
\* with the token record in memory, the token file and the number of
\* tokens issued as they were: neither step of the callback assigns a
\* field or writes the file.
C33_FailedCallbackFrame ==
    [][(proc = "running" /\ proc' = "running")
       => /\ cb = "idle" /\ cb' = "exchanging" => UNCHANGED tokenVars
          /\ \A a \in AuthReq :
               (/\ apc[a] \in {"pending", "pendingOrphan"}
                /\ apc'[a] = "done"
                /\ ares'[a] = "No code provided")
               => /\ cb = "idle" /\ cb' = "idle"
                  /\ UNCHANGED tokenVars
          /\ \A a \in AuthReq :
               (/\ apc[a] \in {"pending", "pendingOrphan"}
                /\ apc'[a] = "done"
                /\ ares'[a] = "exchange failed")
               => /\ cb = "exchanging" /\ cb' = "idle"
                  /\ UNCHANGED tokenVars]_vars

\* the exchange failed while memory and the token file held a record
C33_Witness ==
    \E a \in AuthReq :
      /\ apc[a] = "done"
      /\ ares[a] = "exchange failed"
      /\ accessToken # NULL
      /\ ParseOk(store)

----------------------------------------------------------------------------
\* Properties of the auth-spotify tool and of the tool dispatcher

\* C34: the auth-spotify tool returns 'Successfully authenticated' only
\* when, at that moment, the access token and the refresh token in memory
\* are both non-null (fresh listener, reused listener or delegation alike).
C34_SuccessHoldsCredentials ==
    [][\A a \in AuthReq :
         (/\ apc[a] # "returned" /\ apc'[a] = "returned"
          /\ ares'[a] = "Successfully authenticated")
         => /\ accessToken' # NULL
            /\ refreshToken' # NULL]_vars

\* C35: whenever a Remote API call of spotifyApiRequest is in flight, the
\* bearer token it was issued with is non-null and is an access token the
\* token endpoint has issued, whatever the other request in flight has
\* done to the record in memory meanwhile.
C35_BearerNeverNull ==
    \A r \in Req :
      pc[r] = "calling" => token[r] # NULL /\ token[r] \in 1..issued

\* a call is in flight with its token while the other request's 401 has
\* already cleared the record in memory
C35_Witness ==
    \E r \in Req :
      /\ conc = "requests"
      /\ pc[r] = "calling"
      /\ token[r] # NULL
      /\ accessToken = NULL
      /\ \E q \in Req : q # r /\ result[q] = "Authorization expired"

\* C36: a failing refresh destroys only the credentials it was attempted
\* with. When the refresh of a call that began with a complete record in
\* memory fails while memory holds a different complete record (one that
\* the other request's refresh installed in the meantime), the failure
\* leaves the record in memory and the token file as they are.
C36_FailureSparesNewer ==
    [][\A r \in Req :
         (/\ proc = "running" /\ proc' = "running"
          /\ pc[r] = "refreshing" /\ pc'[r] # "refreshing"
          /\ resp'[r] = FailedResp
          /\ pre[r].accessToken # NULL /\ pre[r].refreshToken # NULL
          /\ Mem # pre[r]
          /\ Mem.accessToken # NULL /\ Mem.refreshToken # NULL)
         => /\ Mem' = Mem
            /\ store' = store]_vars

\* C37: the short circuit of auth-spotify in the build. The handler tests
\* the access token in memory or, when memory holds none, the record it
\* loads from a readable token file; with nothing to test it calls
\* startAuthServer at once. When the test call accepts the token the tool
\* call ends with 'Already authenticated' in that step, with the listener,
\* the port and the callback untouched (startAuthServer is not called), and
\* that text is returned in no other way; when the test call fails the
\* handler goes on to startAuthServer.
C37_AlreadyAuthenticated ==
    [][\A a \in AuthReq :
         (variant = "build" /\ proc = "running" /\ proc' = "running")
         => /\ (apc[a] = "idle" /\ apc'[a] # "idle")
               => /\ UNCHANGED <<authServer, orphan, port, cb>>
                  /\ IF accessToken # NULL
                     THEN apc'[a] = "testing" /\ Mem' = Mem
                     ELSE IF ParseOk(store)
                     THEN apc'[a] = "testing" /\ Mem' = Parse(store)
                     ELSE apc'[a] = startAuthServerEntry /\ Mem' = Mem
            /\ (apc[a] = "testing" /\ apc'[a] = "done")
               => /\ ares'[a] = "Already authenticated"
                  /\ UNCHANGED <<authServer, orphan, port, cb>>
            /\ (apc[a] = "testing" /\ apc'[a] \notin {"testing", "done"})
               => apc'[a] = startAuthServerEntry
            /\ (apc[a] # "done" /\ apc'[a] = "done"
                /\ ares'[a] = "Already authenticated")
               => apc[a] = "testing"
            /\ (apc[a] = "done" /\ apc'[a] = "returned")
               => (ares'[a] = "Already authenticated"
                   <=> ares[a] = "Already authenticated")]_vars

\* 'Already authenticated' was returned on a token loaded from the token
\* file, with no listener and the port untouched
C37_Witness ==
    \E a \in AuthReq :
      /\ variant = "build"
      /\ apc[a] = "returned"
      /\ ares[a] = "Already authenticated"
      /\ accessToken # NULL
      /\ Mem = Parse(store)
      /\ authServer = "none"
      /\ port = "free"

\* C38: a rejected tool invocation has no effect. The step in which the
\* handler rejects a call (arguments that fail the schema, an unknown tool
\* name, get-recommendations without a seed list) issues no Remote API call
\* and no token-endpoint call (no request slot leaves idle, no counter and
\* no issued token changes) and leaves the token record in memory, the
\* token file, the listener, the port and the authorization flow as they
\* were; so does the step that hands the error to the host.
C38_RejectedNoEffect ==
    [][(\/ call.status = "none" /\ call'.status \in Rejections
        \/ call.status \in Rejections /\ call'.status = "none")
       => /\ Rejections = {"Invalid arguments", "Unknown tool",
                           "At least one seed must be provided"}
          /\ UNCHANGED <<accessToken, refreshToken, tokenExpirationTime,
                         store, issued>>
          /\ UNCHANGED <<pc, op, token, result, cnt, resp, http>>
          /\ UNCHANGED <<authServer, orphan, port, apc, ares, cb, proc>>]_vars

\* a get-recommendations call without seeds was rejected while the process
\* held tokens and a listening socket
C38_Witness ==
    /\ call.status = "At least one seed must be provided"
    /\ accessToken # NULL
    /\ ParseOk(store)
    /\ authServer = "listening"
    /\ \A r \in Req : pc[r] = "idle" /\ cnt[r] = ZeroCnt

====
